---- MODULE Spec2Model ----
(***************************************************************************)
(* Model of ecl2df/wellconnstatus.py: the extraction of the sparse         *)
(* OPEN/SHUT status history of well connections from CPI summary vectors.  *)
(*                                                                         *)
(*   Spec    the scan of one (dates, conn_values) pair by                  *)
(*           _get_status_changes, one loop iteration per step;             *)
(*   SpecDf  df(): the filter of the summary column names, the loop over   *)
(*           the CPI columns and the rows appended to the DataFrame.       *)
(***************************************************************************)
EXTENDS Integers, Sequences, FiniteSets, TLC

\* Longest series (number of report steps) explored.
MaxLen == 3
\* Dates are drawn from 1..MaxDate.
MaxDate == 4
\* CPI values of the scan are drawn from -1..MaxVal.
MaxVal == 2

VARIABLES
    \* ---- _get_status_changes ----
    dates,           \* argument dates
    conn_values,     \* argument conn_values
    status_changes,  \* the list being built
    prev_value,      \* local prev_value
    pos,             \* number of pairs the zip iterator has produced
    pc,              \* "loop" | "returned" ("unused": no direct call)
    \* ---- df ----
    column_names,    \* set(EclSumKeyWordVector(eclsum, add_keywords=True))
    np_dates_ms,     \* eclsum.numpy_dates
    vectors,         \* col |-> eclsum.numpy_vector(col)
    cpi_columns,     \* the part of the list cpi_columns not yet iterated
    df,              \* rows of the DataFrame being built
    dfpc,            \* "idle" | "loop" ("unused": df is not called)
    outputs          \* DataFrames returned by the calls of df made so far

scan_vars == <<dates, conn_values, status_changes, prev_value, pos, pc>>
df_vars == <<column_names, np_dates_ms, vectors, cpi_columns, df, dfpc, outputs>>
vars == <<scan_vars, df_vars>>

Min(a, b) == IF a <= b THEN a ELSE b

SeqsUpTo(S, n) == UNION {[1..m -> S] : m \in 0..n}

\* Strictly increasing sequences of dates of length at most n.
DateSeqs(n) ==
    {s \in SeqsUpTo(1..MaxDate, n) : \A t \in 1..(Len(s) - 1) : s[t] < s[t + 1]}

Values == -1..MaxVal

(***************************************************************************)
(* _get_status_changes                                                     *)
(***************************************************************************)

\* Variant: the scan starts from the first value of the series.
InitialPrevValueFirst(values) == IF values = <<>> THEN 0 ELSE values[1]

\* prev_value = 0
InitialPrevValue(values) == 0

\* Variant: the test of prev_value is missing.
EmitsOpenAnyPrev(value, prev) == value > 0

\* if value > 0 and prev_value == 0
EmitsOpen(value, prev) == value > 0 /\ prev = 0

\* Variant: prev_value != 0 in place of prev_value > 0.
EmitsShutPrevNonZero(value, prev) == prev # 0 /\ value = 0

\* Variant: the test of value is missing.
EmitsShutAnyValue(value, prev) == prev > 0

\* elif prev_value > 0 and value == 0
EmitsShut(value, prev) == prev > 0 /\ value = 0

\* Variant: the two status strings are exchanged.
LoopAppendSwapped(changes, date, value, prev) ==
    IF value > 0 /\ prev = 0 THEN Append(changes, <<date, "SHUT">>)
    ELSE IF prev > 0 /\ value = 0 THEN Append(changes, <<date, "OPEN">>)
    ELSE changes

\* The if/elif of the loop body: the list after the pair (date, value).
LoopAppend(changes, date, value, prev) ==
    IF EmitsOpen(value, prev) THEN Append(changes, <<date, "OPEN">>)
    ELSE IF EmitsShut(value, prev) THEN Append(changes, <<date, "SHUT">>)
    ELSE changes

\* Variant: prev_value is never updated.
NextPrevValueKept(value, prev) == prev

\* prev_value = value
NextPrevValue(value, prev) == value

\* zip(dates, conn_values) stops with the shorter of its arguments.
ZipLen(ds, values) == Min(Len(ds), Len(values))

RECURSIVE ScanFrom(_, _, _, _, _)
ScanFrom(ds, values, n, changes, prev) ==
    IF n >= ZipLen(ds, values) THEN changes
    ELSE ScanFrom(ds, values, n + 1,
                  LoopAppend(changes, ds[n + 1], values[n + 1], prev),
                  NextPrevValue(values[n + 1], prev))

\* The whole function, as df calls it.
get_status_changes(ds, values) ==
    ScanFrom(ds, values, 0, <<>>, InitialPrevValue(values))

InitScan ==
    /\ dates \in DateSeqs(MaxLen)
    /\ conn_values \in SeqsUpTo(Values, MaxLen)
    /\ status_changes = <<>>
    /\ prev_value = InitialPrevValue(conn_values)
    /\ pos = 0
    /\ pc = "loop"

\* One iteration of the for loop.
LoopBody ==
    /\ pc = "loop"
    /\ pos < ZipLen(dates, conn_values)
    /\ status_changes' =
           LoopAppend(status_changes, dates[pos + 1], conn_values[pos + 1], prev_value)
    /\ prev_value' = NextPrevValue(conn_values[pos + 1], prev_value)
    /\ pos' = pos + 1
    /\ UNCHANGED <<dates, conn_values, pc>>
    /\ UNCHANGED df_vars

\* The iterator is exhausted: return status_changes.
Return ==
    /\ pc = "loop"
    /\ pos >= ZipLen(dates, conn_values)
    /\ pc' = "returned"
    /\ UNCHANGED <<dates, conn_values, status_changes, prev_value, pos>>
    /\ UNCHANGED df_vars

DfUnused ==
    /\ column_names = {}
    /\ np_dates_ms = <<>>
    /\ vectors = <<>>
    /\ cpi_columns = <<>>
    /\ df = <<>>
    /\ dfpc = "unused"
    /\ outputs = <<>>

Init == InitScan /\ DfUnused

Next ==
    \/ LoopBody
    \/ Return

Spec == Init /\ [][Next]_vars

(***************************************************************************)
(* Properties of _get_status_changes, checked under Spec                   *)
(***************************************************************************)

\* The values the loop has consumed so far.
Scanned == SubSeq(conn_values, 1, pos)

NonNegative(values) == \A t \in 1..Len(values) : values[t] >= 0

Status(changes, n) == changes[n][2]

Alternates(changes) ==
    /\ changes # <<>> => Status(changes, 1) = "OPEN"
    /\ \A n \in 1..(Len(changes) - 1) : Status(changes, n) # Status(changes, n + 1)

\* C1: for a series of non-negative values the list built by
\* _get_status_changes starts with OPEN when it is not empty and no two
\* consecutive events carry the same status (so no SHUT precedes the first
\* OPEN), at every point of the scan and in the list returned.
C1_Alternation == NonNegative(Scanned) => Alternates(status_changes)

C1_Witness ==
    /\ pc = "returned"
    /\ NonNegative(conn_values)
    /\ Len(status_changes) >= 3

\* Every value <= 0 replaced by 0.
ClampToZero(values) ==
    [t \in 1..Len(values) |-> IF values[t] <= 0 THEN 0 ELSE values[t]]

\* C2: for an equal-length pair (dates, values) the events returned are those
\* returned for the same series with every value <= 0 replaced by 0.
C2_NegativeAsZero ==
    (pc = "returned" /\ Len(dates) = Len(conn_values))
        => status_changes = get_status_changes(dates, ClampToZero(conn_values))

\* C3: a call whose dates and values differ in length does not return
\* events computed from the common prefix of the two (it fails instead).
C3_FailFast ==
    ~(pc = "returned" /\ Len(dates) # Len(conn_values) /\ status_changes # <<>>)

\* C5: the scan starts from previous value 0, and once at least one value has
\* been consumed and all consumed values are > 0 the list is exactly the
\* single event (dates[0], OPEN).
C5_MonotonicOpen ==
    /\ pos = 0 => prev_value = 0
    /\ (pos >= 1 /\ \A t \in 1..pos : conn_values[t] > 0)
           => status_changes = << <<dates[1], "OPEN">> >>

C5_Witness ==
    /\ pc = "returned"
    /\ pos = Len(conn_values)
    /\ pos >= 3
    /\ \A t \in 1..pos : conn_values[t] > 0
    /\ status_changes = << <<dates[1], "OPEN">> >>

\* The transition rule stated on the values alone (indices from 1).
ExpectedAt(values, t) ==
    IF values[t] > 0 /\ (t = 1 \/ values[t - 1] = 0) THEN "OPEN"
    ELSE IF t > 1 /\ values[t - 1] > 0 /\ values[t] = 0 THEN "SHUT"
    ELSE "NONE"

RECURSIVE ExpectedEvents(_, _, _)
ExpectedEvents(ds, values, n) ==
    IF n = 0 THEN <<>>
    ELSE LET rest == ExpectedEvents(ds, values, n - 1)
             s == ExpectedAt(values, n)
         IN  IF s = "NONE" THEN rest ELSE Append(rest, <<ds[n], s>>)

Scenario1Dates == [t \in 1..7 |-> 10 + t]
Scenario1Values == <<0, 0, 5, 5, 0, 3, 0>>

\* C8: for non-negative values the events emitted for the indices consumed
\* so far are, in index order, (dates[t], OPEN) for each t with values[t] > 0
\* and (t first or values[t-1] = 0), (dates[t], SHUT) for each t with
\* values[t-1] > 0 and values[t] = 0, and nothing else; the dates of the
\* events are strictly increasing; an equal-length pair is consumed whole;
\* and the series [0,0,5,5,0,3,0] gives OPEN, SHUT, OPEN, SHUT at t2,t4,t5,t6.
C8_TransitionRule ==
    /\ NonNegative(Scanned)
           => /\ status_changes = ExpectedEvents(dates, conn_values, pos)
              /\ \A n \in 1..(Len(status_changes) - 1) :
                     status_changes[n][1] < status_changes[n + 1][1]
    /\ (pc = "returned" /\ Len(dates) = Len(conn_values)) => pos = Len(conn_values)
    /\ get_status_changes(Scenario1Dates, Scenario1Values)
           = << <<13, "OPEN">>, <<15, "SHUT">>, <<16, "OPEN">>, <<17, "SHUT">> >>

C8_Witness ==
    /\ pc = "returned"
    /\ Len(dates) = Len(conn_values)
    /\ conn_values = <<0, 2, 0>>
    /\ status_changes = << <<dates[2], "OPEN">>, <<dates[3], "SHUT">> >>
    /\ dates[2] # 2

LatestStatus(changes, d) ==
    LET upto == {n \in 1..Len(changes) : changes[n][1] <= d}
    IN  IF upto = {} THEN "NONE"
        ELSE Status(changes,
                    CHOOSE n \in upto :
                        \A m \in upto : changes[m][1] < changes[n][1] \/ m <= n)

\* C10: for non-negative values and strictly increasing dates, at every index
\* t consumed values[t] > 0 exactly when the latest event dated dates[t] or
\* earlier is OPEN, and values[t] = 0 exactly when it is SHUT or there is
\* none; and after every step the last event is OPEN exactly when prev_value
\* is > 0.
C10_Lossless ==
    NonNegative(Scanned)
        => /\ \A t \in 1..pos :
                  /\ conn_values[t] > 0
                         <=> LatestStatus(status_changes, dates[t]) = "OPEN"
                  /\ conn_values[t] = 0
                         <=> LatestStatus(status_changes, dates[t]) \in {"SHUT", "NONE"}
           /\ (status_changes # <<>>
                   /\ Status(status_changes, Len(status_changes)) = "OPEN")
                  <=> prev_value > 0

C10_Witness ==
    /\ pc = "returned"
    /\ Len(dates) = Len(conn_values)
    /\ conn_values = <<0, 1, 0>>
    /\ LatestStatus(status_changes, dates[1]) = "NONE"
    /\ LatestStatus(status_changes, dates[2]) = "OPEN"
    /\ LatestStatus(status_changes, dates[3]) = "SHUT"

(***************************************************************************)
(* df                                                                      *)
(***************************************************************************)

\* A summary key is modelled as the sequence of its fields and separators:
\* "CPI:W1:1,2,3" is <<"CPI", ":", "W1", ":", "1", ",", "2", ",", "3">>.
Connections ==
    { [well |-> "W1", i |-> "1", j |-> "2", k |-> "3"],
      [well |-> "W2", i |-> "2", j |-> "2", k |-> "2"] }

\* The summary key of a connection, on the form CPI:WELL:I,J,K.
ColumnOf(c) == <<"CPI", ":", c.well, ":", c.i, ",", c.j, ",", c.k>>

\* Keys a summary file may hold: the connections' CPI vectors, a well vector
\* and a CPI key with two coordinates only.
ColumnUniverse ==
    {ColumnOf(c) : c \in Connections}
        \cup { <<"WOPR", ":", "W1">>, <<"CPI", ":", "W1", ":", "1", ",", "2">> }

\* Fields matching [A-Z0-9_-]{1,8} and [0-9]+ among those of the universe.
WellPattern == {"W1", "W2", "1", "2", "3", "CPI", "WOPR"}
NumberPattern == {"1", "2", "3"}

\* str.split(sep): the fields between the separators, one more than separators.
RECURSIVE Split(_, _)
Split(s, sep) ==
    IF s = <<>> THEN << <<>> >>
    ELSE LET rest == Split(Tail(s), sep)
         IN  IF Head(s) = sep THEN << <<>> >> \o rest
             ELSE << <<Head(s)>> \o rest[1] >> \o Tail(rest)

\* The text of a field made of a single token.
Text(field) == field[1]

\* re.match("^CPI:[A-Z0-9_-]{1,8}:[0-9]+,[0-9]+,[0-9]+$", col)
Matches(col) ==
    LET parts == Split(col, ":")
    IN  /\ Len(parts) = 3
        /\ parts[1] = <<"CPI">>
        /\ Len(parts[2]) = 1
        /\ Text(parts[2]) \in WellPattern
        /\ LET cell == Split(parts[3], ",")
           IN  /\ Len(cell) = 3
               /\ \A n \in 1..3 : Len(cell[n]) = 1 /\ Text(cell[n]) \in NumberPattern

\* The orders in which iterating a Python set may yield its elements: the
\* order depends on the strings' hashes, which are salted per process.
SetIterationOrders(S) ==
    {order \in [1..Cardinality(S) -> S] :
        \A a, b \in 1..Cardinality(S) : a # b => order[a] # order[b]}

\* cpi_columns = [col for col in column_names if re.match(...)]
CpiColumnLists(names) ==
    {SelectSeq(order, Matches) : order \in SetIterationOrders(names)}

\* Variant: the coordinates i and j are exchanged in the row.
DfRowSwapped(date, well, i, j, k, status) == <<date, well, j, i, k, status>>

\* [date, well, i, j, k, status]
DfRow(date, well, i, j, k, status) == <<date, well, i, j, k, status>>

\* for date, status in status_changes: df.loc[df.shape[0]] = [...]
RECURSIVE AppendRows(_, _, _, _, _, _)
AppendRows(frame, changes, well, i, j, k) ==
    IF changes = <<>> THEN frame
    ELSE AppendRows(Append(frame, DfRow(Head(changes)[1], well, i, j, k, Head(changes)[2])),
                    Tail(changes), well, i, j, k)

\* CPI values of the summary vectors read by df.
DfValues == 0..1

InitDf ==
    /\ column_names \in SUBSET ColumnUniverse
    /\ np_dates_ms \in DateSeqs(MaxLen)
    \* Every vector is aligned to the dates; the vectors of the keys the
    \* filter rejects are never read and are held fixed.
    /\ \E cpi \in [{col \in column_names : Matches(col)}
                       -> [1..Len(np_dates_ms) -> DfValues]] :
           vectors = [col \in column_names |->
                          IF Matches(col) THEN cpi[col]
                          ELSE [t \in 1..Len(np_dates_ms) |-> 1]]
    /\ cpi_columns = <<>>
    /\ df = <<>>
    /\ dfpc = "idle"
    /\ outputs = <<>>

\* A call of df up to the loop: the filter of the column names and the empty
\* DataFrame.  The same summary file is read by at most two calls.
DfStart ==
    /\ dfpc = "idle"
    /\ Len(outputs) < 2
    /\ cpi_columns' \in CpiColumnLists(column_names)
    /\ df' = <<>>
    /\ dfpc' = "loop"
    /\ UNCHANGED <<column_names, np_dates_ms, vectors, outputs>>
    /\ UNCHANGED scan_vars

\* One iteration of "for col in cpi_columns".
DfLoopBody ==
    /\ dfpc = "loop"
    /\ cpi_columns # <<>>
    /\ LET col == Head(cpi_columns)
           colsplit == Split(col, ":")
           well == Text(colsplit[2])
           ijk == Split(colsplit[3], ",")
           vector == vectors[col]
           changes == get_status_changes(np_dates_ms, vector)
       IN  /\ Len(ijk) = 3
           /\ df' = AppendRows(df, changes, well,
                               Text(ijk[1]), Text(ijk[2]), Text(ijk[3]))
    /\ cpi_columns' = Tail(cpi_columns)
    /\ UNCHANGED <<column_names, np_dates_ms, vectors, dfpc, outputs>>
    /\ UNCHANGED scan_vars

\* return df
DfReturn ==
    /\ dfpc = "loop"
    /\ cpi_columns = <<>>
    /\ outputs' = Append(outputs, df)
    /\ dfpc' = "idle"
    /\ UNCHANGED <<column_names, np_dates_ms, vectors, cpi_columns, df>>
    /\ UNCHANGED scan_vars

ScanUnused ==
    /\ dates = <<>>
    /\ conn_values = <<>>
    /\ status_changes = <<>>
    /\ prev_value = 0
    /\ pos = 0
    /\ pc = "unused"

InitAggregate == InitDf /\ ScanUnused

NextDf ==
    \/ DfStart
    \/ DfLoopBody
    \/ DfReturn

SpecDf == InitAggregate /\ [][NextDf]_vars

(***************************************************************************)
(* Properties of df, checked under SpecDf                                  *)
(***************************************************************************)

\* The rows of a frame labelled with the identity of connection c.
RowsOf(frame, c) ==
    SelectSeq(frame, LAMBDA r : <<r[2], r[3], r[4], r[5]>> = <<c.well, c.i, c.j, c.k>>)

\* Their (date, status) pairs, in the order of the frame.
EventsOf(frame, c) ==
    LET rows == RowsOf(frame, c)
    IN  [n \in 1..Len(rows) |-> <<rows[n][1], rows[n][6]>>]

Labelled(frame) ==
    \A n \in 1..Len(frame) :
        \E c \in Connections :
            /\ ColumnOf(c) \in column_names
            /\ <<frame[n][2], frame[n][3], frame[n][4], frame[n][5]>>
                   = <<c.well, c.i, c.j, c.k>>

\* The events of connection c on its own.
OwnEvents(c) ==
    IF ColumnOf(c) \in column_names
    THEN get_status_changes(np_dates_ms, vectors[ColumnOf(c)])
    ELSE <<>>

Pending(c) == \E n \in 1..Len(cpi_columns) : cpi_columns[n] = ColumnOf(c)

\* C6: in every DataFrame df returns, whatever the order of the columns, the
\* rows labelled (well, i, j, k) of a connection are, in order, exactly the
\* events _get_status_changes returns for that connection's vector alone,
\* and every row carries the identity of a connection of the file; the same
\* holds during the loop for the connections already processed, and a
\* connection not yet processed has no row.
C6_PerConnection ==
    /\ \A n \in 1..Len(outputs) :
           /\ Labelled(outputs[n])
           /\ \A c \in Connections : EventsOf(outputs[n], c) = OwnEvents(c)
    /\ dfpc = "loop"
           => /\ Labelled(df)
              /\ \A c \in Connections :
                     EventsOf(df, c) = IF Pending(c) THEN <<>> ELSE OwnEvents(c)

C6_Witness ==
    /\ Len(outputs) >= 1
    /\ Len(outputs[1]) >= 3
    /\ \A c \in Connections : Len(RowsOf(outputs[1], c)) >= 1
    /\ outputs[1][1][2] = "W2"

\* C7: two calls of df on the same summary file return the same rows in the
\* same sequence.
C7_Deterministic == Len(outputs) = 2 => outputs[1] = outputs[2]
(***************************************************************************)
(* The module as a whole: a direct call of _get_status_changes, or calls   *)
(* of df                                                                   *)
(***************************************************************************)

InitAny == (InitScan /\ DfUnused) \/ (InitDf /\ ScanUnused)

NextAny ==
    \/ LoopBody
    \/ Return
    \/ DfStart
    \/ DfLoopBody
    \/ DfReturn

SpecAny == InitAny /\ [][NextAny]_vars

NeverOpen(values) == \A t \in 1..Len(values) : values[t] <= 0

\* C4: as long as every value consumed by _get_status_changes is <= 0 (the
\* empty series included) no event has been emitted; and in every DataFrame
\* df returns, and in the one it is building, a connection whose vector is
\* <= 0 at every report step has no row.
C4_Exclusion ==
    /\ pc # "unused" => (NeverOpen(Scanned) => status_changes = <<>>)
    /\ \A c \in Connections :
           (ColumnOf(c) \in column_names /\ NeverOpen(vectors[ColumnOf(c)]))
               => /\ RowsOf(df, c) = <<>>
                  /\ \A n \in 1..Len(outputs) : RowsOf(outputs[n], c) = <<>>

\* A scan that returned after consuming a negative value and then a zero.
C4_Witness ==
    /\ pc = "returned"
    /\ pos = Len(conn_values)
    /\ pos >= 2
    /\ NeverOpen(conn_values)
    /\ \E t \in 1..(pos - 1) : conn_values[t] < 0 /\ conn_values[t + 1] = 0

\* A DataFrame returned for a file with one connection that opens and one
\* that never does.
C4_WitnessDf ==
    /\ Len(outputs) >= 1
    /\ Len(np_dates_ms) >= 2
    /\ \A c \in Connections : ColumnOf(c) \in column_names
    /\ \E c \in Connections : NeverOpen(vectors[ColumnOf(c)])
    /\ outputs[1] # <<>>

====
